---- MODULE Spec2Model ----
(***************************************************************************)
(* CubeSat wildfire digital twin: the detection pipeline and its one-shot  *)
(* payout trigger, in the two variants of the repository:                  *)
(*   variant 1  src/cubesat_wildfire_digital_twin.py                       *)
(*   variant 2  src/unnamed/part_000 (cubesat_digital twin_ndvi.py)        *)
(* Temperatures are whole degrees Celsius.  A thermal grid is kept as the  *)
(* description of its noise field plus the increment the injection added;  *)
(* GridAt gives the value of each of its 64x64 cells.                      *)
(***************************************************************************)
EXTENDS Integers, Sequences, FiniteSets, TLC

\* -------------------------------------------------------------------- state
VARIABLES
    variant,                \* which of the two scripts runs
    step,                   \* run_simulation's loop index
    pc,                     \* run_simulation's position in the iteration
    sat,                    \* sat_lat, sat_lon of the iteration
    grid,                   \* the iteration's thermal grid
    fires,                  \* apply_ai_noise_filter's list
    fire_pixels,            \* variant 2: np.argwhere(grid > 55)
    burn,                   \* variant 2: what analyze_burn_scar reported
    confidence,             \* the iteration's confidence, once computed
    fire_loc,               \* fire_lat, fire_lon, once computed
    shown,                  \* the arguments of the iteration's
                            \* visualize_thermal_map call
    frames,                 \* calls of visualize_thermal_map so far
    payout_calls,           \* calls of trigger_payout so far
    fire_already_reported,  \* the latch
    dashboard_state,        \* the global dictionary the page reads
    rpc,                    \* dashboard(): fields of the page read so far
    page,                   \* dashboard(): the page being rendered
    requests,               \* requests the dashboard has begun
    cnt,                    \* function checks: two anomaly counts,
    cnt2,
    gsd,                    \* a ground sample distance,
    score,                  \* calculate_confidence of the two counts,
    score2,
    estimate,               \* and analyze_burn_scar of the first
    probe,                  \* variant comparison: a grid,
    gates                   \* and each variant's trigger decision on it

\* ------------------------------------------------------------ configuration
TEMP_THRESHOLD_CELSIUS == 45
SENSOR_GSD_M == 100
fire_threshold_temp == 55
GRID_SIZE == 64
GRID_CENTER == 32
WINDOW_LO == 28
WINDOW_HI == 36
PATCH_LO == 28
PATCH_HI == 35
NOISE_MEAN == 27
INJECT_V1 == 25
INJECT_V2 == 30
CONF_BASE == 60
CONF_PER_PIXEL == 2
CONF_CAP == 95
TRIGGER_CONFIDENCE == 85
NUM_STEPS == 10
METERS_PER_DEG == 111320
SQ_M_PER_HECTARE == 10000

Variants == {1, 2}

\* ------------------------------------------------------------------ bounds
\* how many of NoisePatches and of NoiseLevels a noise field may use
MaxPatch == 5
MaxLevel == 5
\* the anomaly counts and the ground sample distances of the function checks
MaxCount == 24
MaxGsdStep == 4

Min(a, b) == IF a <= b THEN a ELSE b

\* ------------------------------------------------------------ thermal grid
\* Deviations of the noise field from its mean: a rectangle
\* <<row0, row1, col0, col1>> (bounds inclusive) of cells at one level.
NoisePatches ==
    << <<28, 35, 28, 35>>,    \* the 8x8 patch of the injection, 64 cells
       <<27, 37, 27, 37>>,    \* the window and the ring around it, 121 cells
       <<0, 3, 0, 3>>,        \* 16 cells far outside the window
       <<30, 32, 30, 33>>,    \* 12 cells inside the window
       <<35, 36, 30, 36>>,    \* 14 cells inside the window
       <<36, 37, 20, 40>> >>  \* a strip across the window's last row

NoiseLevels == <<60, 46, 55, 45, 56, 44>>

PatchSet == {NoisePatches[i] : i \in 1..Min(MaxPatch, Len(NoisePatches))}
LevelSet == {NoiseLevels[i] : i \in 1..Min(MaxLevel, Len(NoiseLevels))}

\* np.random.normal(27, 1.0, (64, 64)): the fields the model draws.  The
\* normal distribution leaves no value out, so every one of them can occur.
FlatField == [rect |-> <<0, -1, 0, -1>>, level |-> NOISE_MEAN]
NoiseFields ==
    {FlatField} \cup {[rect |-> p, level |-> l] : p \in PatchSet, l \in LevelSet}
\* the fields of the specifications that add the dashboard or fairness
FewFields == {FlatField, [rect |-> NoisePatches[1], level |-> NoiseLevels[1]]}

InRect(rect, y, x) ==
    rect[1] <= y /\ y <= rect[2] /\ rect[3] <= x /\ x <= rect[4]

NoiseAt(noise, y, x) ==
    IF InRect(noise.rect, y, x) THEN noise.level ELSE NOISE_MEAN

InjectIncrement(v) == IF v = 1 THEN INJECT_V1 ELSE INJECT_V2

\* the value of cell [y, x]: grid[28:36, 28:36] += added
GridAt(thermal, y, x) ==
    NoiseAt(thermal.noise, y, x)
    + (IF PATCH_LO <= y /\ y <= PATCH_HI /\ PATCH_LO <= x /\ x <= PATCH_HI
       THEN thermal.added ELSE 0)

\* capture_thermal_data: a noise field, and the variant's increment on the
\* 8x8 patch when np.random.rand() > 0.7
capture_thermal_data(v, fields) ==
    {[noise |-> n, added |-> a] : n \in fields, a \in {0, InjectIncrement(v)}}

NoGrid == [noise |-> [rect |-> <<0, -1, 0, -1>>, level |-> NOISE_MEAN],
           added |-> 0]

\* the cells <<row, col>> of a grid in row-major order, as numpy yields them
RowMajorCells ==
    [i \in 1..(GRID_SIZE * GRID_SIZE) |->
        <<(i - 1) \div GRID_SIZE, (i - 1) % GRID_SIZE>>]

\* np.where(grid > threshold) / np.argwhere(grid > threshold)
np_where(thermal, threshold) ==
    SelectSeq(RowMajorCells, LAMBDA c : GridAt(thermal, c[1], c[2]) > threshold)

\* a window that leaves its last row and column out
InWindowHalfOpen(c) ==
    /\ WINDOW_LO <= c[2] /\ c[2] < WINDOW_HI
    /\ WINDOW_LO <= c[1] /\ c[1] < WINDOW_HI

InWindow(c) ==
    /\ WINDOW_LO <= c[2] /\ c[2] <= WINDOW_HI
    /\ WINDOW_LO <= c[1] /\ c[1] <= WINDOW_HI

apply_ai_noise_filter(thermal) ==
    SelectSeq(np_where(thermal, TEMP_THRESHOLD_CELSIUS), InWindow)

\* Both lists of every grid the model draws, tabulated once as pairs
\* <<grid, list>>; Lookup reads a grid's entry.
GridFamily == UNION {capture_thermal_data(v, NoiseFields) : v \in Variants}
FiresTable == {<<g, apply_ai_noise_filter(g)>> : g \in GridFamily}
FirePixelsTable == {<<g, np_where(g, fire_threshold_temp)>> : g \in GridFamily}
Lookup(table, g) == (CHOOSE p \in table : p[1] = g)[2]

\* ------------------------------------------------------- pipeline functions
\* a confidence that is never clamped
calculate_confidence_uncapped(pixels) ==
    IF Len(pixels) = 0 THEN 0 ELSE CONF_BASE + Len(pixels) * CONF_PER_PIXEL

\* calculate_confidence: both variants test the list for emptiness first
calculate_confidence(pixels) ==
    IF Len(pixels) = 0
    THEN 0
    ELSE Min(CONF_CAP, CONF_BASE + Len(pixels) * CONF_PER_PIXEL)

\* buckets that take their lower boundary in
analyze_burn_scar_inclusive(pixels, gsd_m) ==
    LET area_sq_m == Len(pixels) * (gsd_m * gsd_m)
    IN  IF Len(pixels) = 0
        THEN [area |-> 0, recovery |-> ""]
        ELSE [area |-> area_sq_m,
              recovery |->
                IF area_sq_m >= 5 * SQ_M_PER_HECTARE THEN "4-6 years"
                ELSE IF area_sq_m >= 2 * SQ_M_PER_HECTARE THEN "2-4 years"
                ELSE IF 2 * area_sq_m >= SQ_M_PER_HECTARE THEN "1-3 years"
                ELSE "< 1 year"]

\* analyze_burn_scar (variant 2), with the module's SENSOR_GSD_M as the
\* parameter gsd.  It returns area_sq_m and prints the recovery estimate;
\* an empty list returns 0 before anything is estimated or printed.
\* area_hectares = area_sq_m / 10000 is compared in square metres.
analyze_burn_scar(pixels, gsd_m) ==
    LET area_sq_m == Len(pixels) * (gsd_m * gsd_m)
    IN  IF Len(pixels) = 0
        THEN [area |-> 0, recovery |-> ""]
        ELSE [area |-> area_sq_m,
              recovery |->
                IF area_sq_m > 5 * SQ_M_PER_HECTARE THEN "4-6 years"
                ELSE IF area_sq_m > 2 * SQ_M_PER_HECTARE THEN "2-4 years"
                ELSE IF 2 * area_sq_m > SQ_M_PER_HECTARE THEN "1-3 years"
                ELSE "< 1 year"]

\* Sum of coordinate k of pixels[lo..hi], added pairwise
RECURSIVE SumCoord(_, _, _, _)
SumCoord(pixels, k, lo, hi) ==
    IF lo > hi THEN 0
    ELSE IF lo = hi THEN pixels[lo][k]
    ELSE LET mid == (lo + hi) \div 2
         IN  SumCoord(pixels, k, lo, mid) + SumCoord(pixels, k, mid + 1, hi)

\* a / b rounded to the nearest integer, halves away from zero (b > 0)
RoundDiv(a, b) ==
    IF a >= 0 THEN (2 * a + b) \div (2 * b) ELSE -((2 * (-a) + b) \div (2 * b))

\* Sub-points <<lat, lon>> the position provider may report, in units of
\* 1e-4 degree (the resolution trigger_payout prints), and cos(lat) as a
\* ratio: cos(0) = 1/1, cos(36.8699 deg) = 4/5.
SubPoints == {<<0, 0>>, <<368699, -1200000>>}
CosRatio(lat) == IF lat = 0 THEN <<1, 1>> ELSE <<4, 5>>

\* compute_fire_location: centroid offset from pixel 32 times the GSD, over
\* 111320 m per degree (times cos(lat) for the longitude), added to the
\* sub-point.  1e4 * 100 / 111320 = 25000 / 2783.
compute_fire_location(pixels, sat_lat, sat_lon) ==
    LET n  == Len(pixels)
        sy == SumCoord(pixels, 1, 1, n)
        sx == SumCoord(pixels, 2, 1, n)
        dy == (sy - GRID_CENTER * n) * (SENSOR_GSD_M * 250)
        dx == (sx - GRID_CENTER * n) * (SENSOR_GSD_M * 250)
        c  == CosRatio(sat_lat)
    IN  <<sat_lat + RoundDiv(dy, n * (METERS_PER_DEG \div 40)),
          sat_lon + RoundDiv(dx * c[2], n * (METERS_PER_DEG \div 40) * c[1])>>

\* f"{value:.4f}" of a value held in units of 1e-4
Digits4(k) ==
    IF k < 10 THEN "000" \o ToString(k)
    ELSE IF k < 100 THEN "00" \o ToString(k)
    ELSE IF k < 1000 THEN "0" \o ToString(k)
    ELSE ToString(k)

Format4f(e4) ==
    LET a == IF e4 < 0 THEN -e4 ELSE e4
    IN  (IF e4 < 0 THEN "-" ELSE "")
        \o ToString(a \div 10000) \o "." \o Digits4(a % 10000)

\* the confidence without its percent sign
FormatPercentBare(conf) == ToString(conf)

\* f"{confidence}%"
FormatPercent(conf) == ToString(conf) \o "%"

\* dict.update(other): other's keys are set, the rest are kept
DictUpdate(d, other) ==
    [k \in DOMAIN d \cup DOMAIN other |->
        IF k \in DOMAIN other THEN other[k] ELSE d[k]]

InitialDashboard(v) ==
    LET base == [fire_detected |-> FALSE, latitude |-> "N/A",
                 longitude |-> "N/A", confidence |-> "N/A",
                 payout_status |-> "Not Triggered"]
    IN  IF v = 1 THEN base
        ELSE DictUpdate(base,
                 [event_log |-> "No wildfire event detected yet."])

\* the dictionary trigger_payout passes to dashboard_state.update
PayoutFields(lat, lon, conf) ==
    [fire_detected |-> TRUE, latitude |-> Format4f(lat),
     longitude |-> Format4f(lon), confidence |-> FormatPercent(conf),
     payout_status |-> "Executed"]

\* ------------------------------------------------------ state, continued
sim_vars == <<variant, step, pc, sat, grid, fires, fire_pixels, burn, confidence,
              fire_loc, shown, frames, payout_calls, fire_already_reported,
              dashboard_state>>
dash_vars == <<rpc, page, requests>>
fn_vars == <<cnt, cnt2, gsd, score, score2, estimate, probe, gates>>
vars == <<sim_vars, dash_vars, fn_vars>>

NoSat == <<0, 0>>
NoShown == <<NoGrid, -1>>
NoConfidence == -1
NoBurn == [area |-> -1, recovery |-> ""]

\* the iteration's locals before the iteration assigns them; what an
\* iteration left in them is not read again
LocalsUnset ==
    /\ sat' = NoSat
    /\ grid' = NoGrid
    /\ fires' = <<>>
    /\ fire_pixels' = <<>>
    /\ burn' = NoBurn
    /\ confidence' = NoConfidence
    /\ fire_loc' = NoSat
    /\ shown' = NoShown

\* both variants gating on the windowed list
GatePixelsWindowed(v, windowed, unwindowed) == windowed

\* the list the variant gates the payout on: lines 135-143 of variant 1 use
\* fires, lines 209-217 of variant 2 use fire_pixels
GatePixelsOf(v, windowed, unwindowed) == IF v = 1 THEN windowed ELSE unwindowed
GatePixels == GatePixelsOf(variant, fires, fire_pixels)

\* -------------------------------------------------------- run_simulation
\* sat_lat, sat_lon = get_current_location(); grid = capture_thermal_data()
Capture(fields) ==
    /\ pc = "capture"
    /\ \E sp \in SubPoints, g \in capture_thermal_data(variant, fields) :
          /\ sat' = sp
          /\ grid' = g
    /\ pc' = "filter"
    /\ UNCHANGED <<variant, step, fires, fire_pixels, burn, confidence, fire_loc,
                   shown, frames, payout_calls, fire_already_reported,
                   dashboard_state>>
    /\ UNCHANGED <<dash_vars, fn_vars>>

\* fires = apply_ai_noise_filter(grid); variant 2 also takes
\* fire_pixels = np.argwhere(grid > self.fire_threshold_temp) and calls
\* analyze_burn_scar on it (its monitor_vegetation_health only prints)
Filter ==
    /\ pc = "filter"
    /\ fires' = Lookup(FiresTable, grid)
    /\ fire_pixels' = IF variant = 2 THEN Lookup(FirePixelsTable, grid) ELSE <<>>
    /\ burn' = IF variant = 2
               THEN analyze_burn_scar(fire_pixels', SENSOR_GSD_M)
               ELSE NoBurn
    /\ pc' = "visualize"
    /\ UNCHANGED <<variant, step, sat, grid, confidence, fire_loc, shown,
                   frames, payout_calls, fire_already_reported,
                   dashboard_state>>
    /\ UNCHANGED <<dash_vars, fn_vars>>

\* self.visualize_thermal_map(grid, step)
Visualize ==
    /\ pc = "visualize"
    /\ shown' = <<grid, step>>
    /\ frames' = frames + 1
    /\ pc' = "decide"
    /\ UNCHANGED <<variant, step, sat, grid, fires, fire_pixels, burn, confidence,
                   fire_loc, payout_calls, fire_already_reported,
                   dashboard_state>>
    /\ UNCHANGED <<dash_vars, fn_vars>>

\* a loop that runs one iteration more
EndIterationOneMore ==
    /\ step' = step + 1
    /\ pc' = IF step + 1 <= NUM_STEPS THEN "capture" ELSE "done"
    /\ LocalsUnset

\* the iteration ends (time.sleep(1)) and the loop goes on or is over
EndIteration ==
    /\ step' = step + 1
    /\ pc' = IF step + 1 < NUM_STEPS THEN "capture" ELSE "done"
    /\ LocalsUnset

\* a gate that forgets the latch
ShouldEvaluateNoLatch(pixels, reported) == Len(pixels) > 0
\* a threshold one step of the score too low
ShouldTriggerFrom84(conf) == conf >= TRIGGER_CONFIDENCE - 1

ShouldEvaluate(pixels, reported) == Len(pixels) > 0 /\ ~reported
ShouldTrigger(conf) == conf >= TRIGGER_CONFIDENCE

\* both ifs of the iteration, for variant v's lists
TriggerDecision(v, windowed, unwindowed, reported) ==
    /\ ShouldEvaluate(GatePixelsOf(v, windowed, unwindowed), reported)
    /\ ShouldTrigger(calculate_confidence(GatePixelsOf(v, windowed, unwindowed)))

\* variant 2 locating the windowed list it did not gate on
LocateArgWindowed(v, windowed, unwindowed) == windowed

\* the list the variant passes to compute_fire_location
LocateArgOf(v, windowed, unwindowed) == IF v = 1 THEN windowed ELSE unwindowed
LocateArg == LocateArgOf(variant, fires, fire_pixels)

\* if fires and not self.fire_already_reported: confidence = ...;
\* if confidence >= 85: go on to locate and pay, else the iteration ends
Decide ==
    /\ pc = "decide"
    /\ IF TriggerDecision(variant, fires, fire_pixels, fire_already_reported)
       THEN /\ confidence' = calculate_confidence(GatePixels)
            /\ pc' = "locate"
            /\ UNCHANGED <<step, sat, grid, fires, fire_pixels, burn,
                           fire_loc, shown>>
       ELSE EndIteration
    /\ UNCHANGED <<variant, frames, payout_calls, fire_already_reported,
                   dashboard_state>>
    /\ UNCHANGED <<dash_vars, fn_vars>>

\* fire_lat, fire_lon = self.compute_fire_location(fires, sat_lat, sat_lon)
Locate ==
    /\ pc = "locate"
    /\ fire_loc' = compute_fire_location(LocateArg, sat[1], sat[2])
    /\ pc' = "payout"
    /\ UNCHANGED <<variant, step, sat, grid, fires, fire_pixels, burn, confidence,
                   shown, frames, payout_calls, fire_already_reported,
                   dashboard_state>>
    /\ UNCHANGED <<dash_vars, fn_vars>>

\* self.trigger_payout(fire_lat, fire_lon, confidence);
\* self.fire_already_reported = True
Payout ==
    /\ pc = "payout"
    /\ dashboard_state' =
          DictUpdate(dashboard_state,
                     PayoutFields(fire_loc[1], fire_loc[2], confidence))
    /\ payout_calls' = payout_calls + 1
    /\ fire_already_reported' = TRUE
    /\ EndIteration
    /\ UNCHANGED <<variant, frames>>
    /\ UNCHANGED <<dash_vars, fn_vars>>

\* ------------------------------------------------------------- dashboard()
\* The Flask handler runs on the thread __main__ starts; its f-string reads
\* dashboard_state field by field.
MaxRequests == 2

PageFields ==
    <<"fire_detected", "latitude", "longitude", "confidence", "payout_status">>

\* str() of a field's value, as the f-string renders it
RenderField(d, f) ==
    IF f = "fire_detected" THEN (IF d[f] THEN "True" ELSE "False") ELSE d[f]

RenderPage(d) == [i \in 1..Len(PageFields) |-> RenderField(d, PageFields[i])]

DashboardRead ==
    /\ rpc < Len(PageFields)
    /\ rpc = 0 => requests < MaxRequests
    /\ page' = Append(page, RenderField(dashboard_state, PageFields[rpc + 1]))
    /\ rpc' = rpc + 1
    /\ requests' = IF rpc = 0 THEN requests + 1 ELSE requests
    /\ UNCHANGED <<sim_vars, fn_vars>>

\* the page is returned and the handler is free for the next request
DashboardReturn ==
    /\ rpc = Len(PageFields)
    /\ rpc' = 0
    /\ page' = <<>>
    /\ UNCHANGED <<requests, sim_vars, fn_vars>>

\* ---------------------------------------------------------- specifications
InitSim ==
    /\ variant \in Variants
    /\ step = 0
    /\ pc = "capture"
    /\ sat = NoSat
    /\ grid = NoGrid
    /\ fires = <<>>
    /\ fire_pixels = <<>>
    /\ burn = NoBurn
    /\ confidence = NoConfidence
    /\ fire_loc = NoSat
    /\ shown = NoShown
    /\ frames = 0
    /\ payout_calls = 0
    /\ fire_already_reported = FALSE
    /\ dashboard_state = InitialDashboard(variant)

InitDash ==
    /\ rpc = 0
    /\ page = <<>>
    /\ requests = 0

InitFnIdle ==
    /\ cnt = 0
    /\ cnt2 = 0
    /\ gsd = SENSOR_GSD_M
    /\ score = NoConfidence
    /\ score2 = NoConfidence
    /\ estimate = NoBurn
    /\ probe = NoGrid
    /\ gates = <<>>

\* run_simulation of either variant over the full family of grids
Init == InitSim /\ InitDash /\ InitFnIdle

Next ==
    \/ Capture(NoiseFields)
    \/ Filter
    \/ Visualize
    \/ Decide
    \/ Locate
    \/ Payout

Spec == Init /\ [][Next]_vars

\* run_simulation over FewFields with the dashboard's thread beside it
NextDash ==
    \/ Capture(FewFields)
    \/ Filter
    \/ Visualize
    \/ Decide
    \/ Locate
    \/ Payout
    \/ DashboardRead
    \/ DashboardReturn

SpecDash == Init /\ [][NextDash]_vars

\* run_simulation over FewFields, every call returning: the loop's thread
\* is never held back for good
NextLive ==
    \/ Capture(FewFields)
    \/ Filter
    \/ Visualize
    \/ Decide
    \/ Locate
    \/ Payout

SpecLive == Init /\ [][NextLive]_vars /\ WF_vars(NextLive)

\* The simulation at rest, for the specifications that apply functions.
SimIdleBut(reported) ==
    /\ variant = 2
    /\ step = 0
    /\ pc = "idle"
    /\ sat = NoSat
    /\ grid = NoGrid
    /\ fires = <<>>
    /\ fire_pixels = <<>>
    /\ burn = NoBurn
    /\ confidence = NoConfidence
    /\ fire_loc = NoSat
    /\ shown = NoShown
    /\ frames = 0
    /\ payout_calls = 0
    /\ fire_already_reported = reported
    /\ dashboard_state = InitialDashboard(2)

SimIdle == SimIdleBut(FALSE)

\* a list of n pixels
PixelList(n) == SubSeq(RowMajorCells, 1, n)

\* calculate_confidence and analyze_burn_scar applied to lists of every
\* length up to MaxCount, the latter with SENSOR_GSD_M set to 100 m and to
\* whole fractions of it (100, 50, 33, 25, ...)
InitFn ==
    /\ SimIdle
    /\ InitDash
    /\ cnt \in 0..MaxCount
    /\ cnt2 \in 0..MaxCount
    /\ gsd \in {SENSOR_GSD_M \div k : k \in 1..MaxGsdStep}
    /\ score = NoConfidence
    /\ score2 = NoConfidence
    /\ estimate = NoBurn
    /\ probe = NoGrid
    /\ gates = <<>>

Score ==
    /\ score = NoConfidence
    /\ score' = calculate_confidence(PixelList(cnt))
    /\ score2' = calculate_confidence(PixelList(cnt2))
    /\ UNCHANGED <<sim_vars, dash_vars, cnt, cnt2, gsd, estimate, probe, gates>>

BurnScar ==
    /\ estimate = NoBurn
    /\ estimate' = analyze_burn_scar(PixelList(cnt), gsd)
    /\ UNCHANGED <<sim_vars, dash_vars, cnt, cnt2, gsd, score, score2, probe,
                   gates>>

NextFn == Score \/ BurnScar

SpecFn == InitFn /\ [][NextFn]_vars

\* Both variants' trigger decision on one grid, from Idle or Triggered.
InitGate ==
    /\ \E reported \in BOOLEAN : SimIdleBut(reported)
    /\ InitDash
    /\ cnt = 0
    /\ cnt2 = 0
    /\ gsd = SENSOR_GSD_M
    /\ score = NoConfidence
    /\ score2 = NoConfidence
    /\ estimate = NoBurn
    /\ probe \in GridFamily
    /\ gates = <<>>

CompareGates ==
    /\ gates = <<>>
    /\ gates' =
          <<TriggerDecision(1, Lookup(FiresTable, probe),
                            Lookup(FirePixelsTable, probe),
                            fire_already_reported),
            TriggerDecision(2, Lookup(FiresTable, probe),
                            Lookup(FirePixelsTable, probe),
                            fire_already_reported)>>
    /\ UNCHANGED <<sim_vars, dash_vars, cnt, cnt2, gsd, score, score2,
                   estimate, probe>>

NextGate == CompareGates

SpecGate == InitGate /\ [][NextGate]_vars

\* ------------------------------------------------------------------ claims
Cells == (0..63) \X (0..63)
Elements(list) == {list[i] : i \in 1..Len(list)}
AfterFilter == pc \in {"visualize", "decide", "locate", "payout"}
AfterVisualize == pc \in {"decide", "locate", "payout"}

\* what the claims say of a grid, read off its cells and tabulated once
\* a set with its elements listed out
Enumerated(S) == {e : e \in S}

ReportedAnomalies(g) ==
    Enumerated({c \in Cells : /\ GridAt(g, c[1], c[2]) > 45
                              /\ c[1] \in 28..36
                              /\ c[2] \in 28..36})
ReportedTable == {<<g, ReportedAnomalies(g)>> : g \in GridFamily}

CellCounts(g) ==
    [windowed |-> Cardinality(ReportedAnomalies(g)),
     eligible |-> Cardinality({c \in Cells : GridAt(g, c[1], c[2]) > 55}),
     eligible_in_window |->
         Cardinality({c \in ReportedAnomalies(g) : GridAt(g, c[1], c[2]) > 55}),
     above45 |-> Cardinality({c \in Cells : GridAt(g, c[1], c[2]) > 45})]
CountTable == {<<g, CellCounts(g)>> : g \in GridFamily}

\* baseline below 45 everywhere but 60 on rows 28-35, columns 28-35
Block60Grids ==
    Enumerated({g \in GridFamily :
        \A c \in Cells :
            IF c[1] \in 28..35 /\ c[2] \in 28..35
            THEN GridAt(g, c[1], c[2]) = 60
            ELSE GridAt(g, c[1], c[2]) < 45})

\* C1: once fire_already_reported is True, no later step calls
\* trigger_payout, changes dashboard_state or resets the latch, whatever
\* the anomalies; trigger_payout is called at most once in a run.
C1_TriggerIdempotent ==
    /\ [][fire_already_reported =>
            /\ fire_already_reported'
            /\ dashboard_state' = dashboard_state
            /\ payout_calls' = payout_calls]_vars
    /\ [](payout_calls <= 1)

\* a Triggered controller is offered a list that would score 95
C1_Witness ==
    /\ fire_already_reported
    /\ pc = "decide"
    /\ calculate_confidence(GatePixels) = 95

\* C2: an iteration goes from Idle to Triggered exactly when the list it
\* tests is non-empty, scores at least 85 and the latch is unset; the latch
\* is set by that iteration's payout and by nothing else.  The list is fires
\* in variant 1 and fire_pixels in variant 2.
C2_TriggerIff ==
    /\ [][pc = "decide" =>
            ((pc' = "locate")
               <=> (/\ Len(GatePixels) > 0
                    /\ calculate_confidence(GatePixels) >= 85
                    /\ ~fire_already_reported))]_vars
    /\ [][pc = "locate" => pc' = "payout"]_vars
    /\ [][pc = "payout" => fire_already_reported']_vars
    /\ [][(~fire_already_reported /\ fire_already_reported')
             => pc = "payout"]_vars
    /\ [](pc \in {"locate", "payout"} => ~fire_already_reported)
    /\ [](pc = "decide" /\ Len(GatePixels) = 0
             => calculate_confidence(GatePixels) = 0)

\* variant 1 is about to pay on a list of 13 or more windowed cells
C2_Witness ==
    /\ variant = 1
    /\ pc = "payout"
    /\ Len(fires) >= 13
    /\ confidence >= 85

\* C3: calculate_confidence of c pixels is 0 for c = 0 and
\* min(95, 60 + 2c) otherwise: within 0..95, non-decreasing in c, and 95
\* from c = 18 on.
ExpectedScore(c) ==
    IF c = 0 THEN 0 ELSE IF 60 + 2 * c < 95 THEN 60 + 2 * c ELSE 95

C3_ConfidenceScore ==
    score # NoConfidence =>
        /\ score = ExpectedScore(cnt)
        /\ score2 = ExpectedScore(cnt2)
        /\ score \in 0..95
        /\ (cnt <= cnt2 => score <= score2)
        /\ (cnt >= 18 => score = 95)

\* the clamp sets in between 17 and 18 pixels
C3_Witness == cnt2 = 17 /\ score2 = 94 /\ cnt = 18 /\ score = 95

\* C4: analyze_burn_scar yields c * gsd^2 square metres and, for every
\* c >= 0, the recovery bucket of that area with strict comparisons at
\* 0.5, 2 and 5 hectares.
RecoveryBucket(area_m2) ==
    IF area_m2 > 50000 THEN "4-6 years"
    ELSE IF area_m2 > 20000 THEN "2-4 years"
    ELSE IF area_m2 > 5000 THEN "1-3 years"
    ELSE "< 1 year"

C4_AsClaimed ==
    estimate # NoBurn =>
        /\ estimate.area = cnt * gsd * gsd
        /\ estimate.recovery = RecoveryBucket(estimate.area)

\* C4 as amended: the same for c >= 1; for c = 0 the area is 0 and no
\* recovery estimate is made.
C4_Amended ==
    estimate # NoBurn =>
        /\ estimate.area = cnt * gsd * gsd
        /\ (cnt >= 1 => estimate.recovery = RecoveryBucket(estimate.area))
        /\ (cnt = 0 => estimate.recovery = "")

\* an area of exactly 0.5 hectare falls in the lowest bucket
C4_Witness ==
    /\ cnt >= 1
    /\ estimate.area = 5000
    /\ estimate.recovery = "< 1 year"

\* C5: apply_ai_noise_filter returns exactly the cells above 45 whose row
\* and column lie in 28..36, each once.
C5_WindowedFilter ==
    AfterFilter =>
        /\ Elements(fires) = Lookup(ReportedTable, grid)
        /\ Cardinality(Elements(fires)) = Len(fires)

\* the whole window is returned while cells beside it are as hot
C5_Witness ==
    /\ AfterFilter
    /\ Len(fires) = 81
    /\ GridAt(grid, 37, 36) > 45
    /\ GridAt(grid, 36, 27) > 45

\* C6: on a grid of 60 on rows and columns 28-35 over a baseline below 45
\* the filter returns 64 cells scoring 95, an Idle controller triggers and
\* publishes "95%", True and "Executed", and a Triggered one does nothing:
\* the payout happens once however often the grid recurs.
C6_EndToEnd ==
    /\ [](/\ AfterFilter /\ grid \in Block60Grids
             => Len(fires) = 64 /\ calculate_confidence(fires) = 95)
    /\ [][(pc = "decide" /\ grid \in Block60Grids /\ ~fire_already_reported)
             => (pc' = "locate" /\ confidence' = 95)]_vars
    /\ [][(pc = "locate" /\ grid \in Block60Grids) => pc' = "payout"]_vars
    /\ [][(pc = "payout" /\ grid \in Block60Grids)
             => /\ fire_already_reported'
                /\ payout_calls' = 1
                /\ dashboard_state'.confidence = "95%"
                /\ dashboard_state'.fire_detected = TRUE
                /\ dashboard_state'.payout_status = "Executed"]_vars
    /\ [][(pc = "decide" /\ grid \in Block60Grids /\ fire_already_reported)
             => (pc' # "locate" /\ payout_calls' = payout_calls
                 /\ dashboard_state' = dashboard_state)]_vars
    /\ [](payout_calls <= 1)

\* the grid recurs in the last iteration of a run that paid on "95%"
C6_Witness ==
    /\ pc = "decide"
    /\ step = NUM_STEPS - 1
    /\ grid \in Block60Grids
    /\ payout_calls = 1
    /\ dashboard_state.confidence = "95%"
    /\ dashboard_state.payout_status = "Executed"

\* C7: compute_fire_location is never called with an empty list, in either
\* variant.
C7_LocateNeverEmpty == pc = "locate" => Len(LocateArg) > 0

\* variant 2 locates while the windowed list is empty
C7_Witness == pc = "locate" /\ variant = 2 /\ Len(fires) = 0

\* C8: every page the dashboard returns shows either the five defaults or
\* the five values of the one trigger_payout call.
C8_ConsistentPage ==
    rpc = Len(PageFields) =>
        \/ page = RenderPage(InitialDashboard(variant))
        \/ payout_calls = 1 /\ page = RenderPage(dashboard_state)

\* C9: variant 1 triggers on the cells above 45 inside the window, variant 2
\* on the cells above 55 anywhere; 13 cells above 55 with none above 45 in
\* the window trigger variant 2 alone, 13 window cells above 45 with none
\* above 55 anywhere trigger variant 1 alone.
C9_GatesDiffer ==
    gates # <<>> =>
        LET k == Lookup(CountTable, probe)
            idle == ~fire_already_reported
        IN  /\ gates[1] = (idle /\ k.windowed >= 13)
            /\ gates[2] = (idle /\ k.eligible >= 13)
            /\ (idle /\ k.eligible >= 13 /\ k.windowed = 0
                  => gates = <<FALSE, TRUE>>)
            /\ (idle /\ k.windowed >= 13 /\ k.eligible = 0
                  => gates = <<TRUE, FALSE>>)

\* the second variant triggers alone: every hot cell is outside the window
C9_Witness ==
    /\ gates = <<FALSE, TRUE>>
    /\ Lookup(CountTable, probe).eligible >= 13
    /\ Lookup(CountTable, probe).eligible_in_window = 0

\* the first variant triggers alone: window cells between 45 and 55
C9_WitnessFirstAlone ==
    /\ gates = <<TRUE, FALSE>>
    /\ Lookup(CountTable, probe).windowed >= 13
    /\ Lookup(CountTable, probe).eligible = 0

\* C10: run_simulation ends after exactly 10 iterations, steps 0..9 in
\* order, each iteration calling visualize_thermal_map once with its grid
\* and index before it decides, and the next one starting only once the
\* decision, and the payout if any, are over.
C10_TenSteps ==
    /\ <>(pc = "done")
    /\ [](pc = "done" => step = NUM_STEPS /\ frames = NUM_STEPS)
    /\ [](pc # "done" => step \in 0..(NUM_STEPS - 1))
    /\ [](pc # "done" => frames = IF AfterVisualize THEN step + 1 ELSE step)
    /\ [](AfterVisualize => shown = <<grid, step>>)
    /\ [][step' # step =>
            /\ step' = step + 1
            /\ pc \in {"decide", "payout"}
            /\ pc' \in {"capture", "done"}]_vars

\* a run that paid has ended after its tenth frame
C10_Witness ==
    /\ pc = "done"
    /\ fire_already_reported
    /\ frames = 10

====
